---- MODULE Spec2Model ----
(***************************************************************************)
(* Streamlet consensus (TorbellinoTech/investment, cpp/src/consensus):     *)
(* the Block value, the per-replica state machine StreamletNode and the    *)
(* driver StreamletProtocol.                                               *)
(*                                                                         *)
(* Two specifications share the variables:                                 *)
(*   Spec        one replica, its public operations called in any order    *)
(*               with any arguments;                                       *)
(*   DriverSpec  the driver: construction of n replicas, then              *)
(*               runSimulation's loop of runEpoch calls.                   *)
(*                                                                         *)
(* Strings are sequences of string tokens, so that a hash, the text        *)
(* "GENESIS" and the empty string are values of one kind.                  *)
(***************************************************************************)
EXTENDS Integers, Sequences, FiniteSets, TLC

VARIABLES
    nodes,      \* index -> replica state (StreamletProtocol::nodes_, or the one replica)
    proto,      \* the driver: n_nodes_, runSimulation's arguments and loop variable, position
    clock,      \* last value read from std::chrono::system_clock, in seconds
    lastCall    \* the operation that produced this state, its arguments and its result

vars == <<nodes, proto, clock, lastCall>>

----------------------------------------------------------------------------
(* Bounds of the model *)

\* largest replica count constructed
MaxN == 4
\* largest numEpochs passed to runSimulation
MaxEpochs == 3
\* largest length of a replica's chain under Spec
MaxChain == 3
\* largest clock value under DriverSpec (seconds since the first construction)
MaxTime == 1
\* castVote is callable while the finalized sequence is shorter than this
MaxFinal == 2
\* castVote may add a vote record while fewer than this many exist
MaxVotes == 2
\* largest number of synthetic transactions per epoch
MaxTx == 1

----------------------------------------------------------------------------
(* C++ integer arithmetic *)

Max(a, b) == IF a >= b THEN a ELSE b

\* int / int truncates toward zero
CDiv(a, b) ==
    IF (a >= 0) = (b > 0) THEN (IF a >= 0 THEN a \div b ELSE (0 - a) \div (0 - b))
    ELSE 0 - ((IF a >= 0 THEN a ELSE 0 - a) \div (IF b > 0 THEN b ELSE 0 - b))

\* int % int: the remainder has the sign of the dividend
CMod(a, b) == a - b * CDiv(a, b)

----------------------------------------------------------------------------
(* Block (block.cpp) *)

\* operator<< of an int into the stream
IntText(i) == <<ToString(i)>>

\* the text "GENESIS"
GenesisText == <<"GENESIS">>

RECURSIVE JoinTx(_)
JoinTx(txs) ==
    IF txs = <<>> THEN <<>>
    ELSE Head(txs) \o <<"|">> \o JoinTx(Tail(txs))

\* the string hashed: epoch:parent:tx|tx|:proposer:time
HashContent(epoch, parent_hash, transactions, proposer_id, timestamp) ==
    IntText(epoch) \o <<":">> \o parent_hash \o <<":">> \o JoinTx(transactions)
        \o <<":">> \o IntText(proposer_id) \o <<":">> \o IntText(timestamp)

\* std::hash<std::string> rendered in hex: a non-empty text that is a function
\* of the content, taken to be free of collisions
calculateHash(epoch, parent_hash, transactions, proposer_id, timestamp) ==
    <<"h(">> \o HashContent(epoch, parent_hash, transactions, proposer_id, timestamp)
        \o <<")">>

\* Block::Block; timestamp is the clock value read by the constructor
Block(epoch, parent_hash, transactions, proposer_id, timestamp) ==
    [ epoch        |-> epoch,
      parent_hash  |-> parent_hash,
      transactions |-> transactions,
      proposer_id  |-> proposer_id,
      timestamp    |-> timestamp,
      hash         |-> calculateHash(epoch, parent_hash, transactions, proposer_id,
                                     timestamp) ]

isValid(b) == b.hash # <<>> /\ b.epoch >= 0 /\ b.proposer_id >= 0

\* std::shared_ptr<Block>: <<>> is the null pointer, <<b>> points to b
NullPtr == <<>>
Ptr(b) == <<b>>
Deref(p) == p[1]

----------------------------------------------------------------------------
(* StreamletNode (streamlet_node.cpp) *)

\* std::map::operator[] followed by assignment
MapPut(m, k, v) == [x \in DOMAIN m \cup {k} |-> IF x = k THEN v ELSE m[x]]

\* votes_by_epoch_[epoch][block_hash] read without inserting
VoteSet(nd, epoch, block_hash) ==
    IF epoch \in DOMAIN nd.votes_by_epoch
    THEN IF block_hash \in DOMAIN nd.votes_by_epoch[epoch]
         THEN nd.votes_by_epoch[epoch][block_hash]
         ELSE {}
    ELSE {}

\* votes_by_epoch_[epoch][block_hash].insert(id)
InsertVote(votes, epoch, block_hash, id) ==
    LET inner == IF epoch \in DOMAIN votes THEN votes[epoch] ELSE << >>
        old   == IF block_hash \in DOMAIN inner THEN inner[block_hash] ELSE {}
    IN  MapPut(votes, epoch, MapPut(inner, block_hash, old \cup {id}))

\* createGenesisBlock without the insertion into notarized_blocks_
createGenesisBlock_Unnotarized(nd, now) ==
    LET genesis == Block(0, GenesisText, <<<<"genesis">>>>, -1, now)
    IN  [nd EXCEPT !.blockchain    = Append(@, genesis),
                   !.block_by_hash = MapPut(@, genesis.hash, genesis)]

\* StreamletNode::createGenesisBlock
createGenesisBlock(nd, now) ==
    LET genesis == Block(0, GenesisText, <<<<"genesis">>>>, -1, now)
    IN  [nd EXCEPT !.blockchain       = Append(@, genesis),
                   !.block_by_hash     = MapPut(@, genesis.hash, genesis),
                   !.notarized_blocks  = @ \cup {genesis.hash}]

\* StreamletNode::StreamletNode
StreamletNode(node_id, n_nodes, now) ==
    createGenesisBlock(
        [ node_id          |-> node_id,
          n_nodes          |-> n_nodes,
          blockchain       |-> <<>>,
          block_by_hash    |-> << >>,
          votes_by_epoch   |-> << >>,
          notarized_blocks |-> {},
          finalized_blocks |-> <<>> ],
        now)

\* findLongestNotarizedChain returning the first block instead of the last
findLongestNotarizedChain_First(nd) ==
    IF nd.blockchain = <<>> THEN NullPtr
    ELSE Ptr(nd.blockchain[1])

\* StreamletNode::findLongestNotarizedChain
findLongestNotarizedChain(nd) ==
    IF nd.blockchain = <<>> THEN NullPtr
    ELSE Ptr(nd.blockchain[Len(nd.blockchain)])

\* validateBlock without the comparison of proposer_id with the block's proposer
validateBlock_IgnoreProposer(block, proposer_id) ==
    IF block = NullPtr \/ ~isValid(Deref(block)) THEN FALSE
    ELSE TRUE

validateBlock(block, proposer_id) ==
    IF block = NullPtr \/ ~isValid(Deref(block)) THEN FALSE
    ELSE IF proposer_id # Deref(block).proposer_id THEN FALSE
    ELSE TRUE

\* notarizeBlock assigning the set instead of inserting into it
notarizeBlock_Assign(nd, block_hash) ==
    [nd EXCEPT !.notarized_blocks = {block_hash}]

notarizeBlock(nd, block_hash) ==
    [nd EXCEPT !.notarized_blocks = @ \cup {block_hash}]

\* checkFinalization finalizing the last block instead of the one before it
checkFinalization_Last(nd) ==
    IF Len(nd.blockchain) < 2 THEN nd
    ELSE LET last == nd.blockchain[Len(nd.blockchain)]
             prev == nd.blockchain[Len(nd.blockchain) - 1]
         IN  IF last.hash \in nd.notarized_blocks /\ prev.hash \in nd.notarized_blocks
             THEN [nd EXCEPT !.finalized_blocks = Append(@, last)]
             ELSE nd

\* checkFinalization assigning the finalized sequence instead of appending to it
checkFinalization_Assign(nd) ==
    IF Len(nd.blockchain) < 2 THEN nd
    ELSE LET last == nd.blockchain[Len(nd.blockchain)]
             prev == nd.blockchain[Len(nd.blockchain) - 1]
         IN  IF last.hash \in nd.notarized_blocks /\ prev.hash \in nd.notarized_blocks
             THEN [nd EXCEPT !.finalized_blocks = <<prev>>]
             ELSE nd

checkFinalization(nd) ==
    IF Len(nd.blockchain) < 2 THEN nd
    ELSE LET last == nd.blockchain[Len(nd.blockchain)]
             prev == nd.blockchain[Len(nd.blockchain) - 1]
         IN  IF last.hash \in nd.notarized_blocks /\ prev.hash \in nd.notarized_blocks
             THEN [nd EXCEPT !.finalized_blocks = Append(@, prev)]
             ELSE nd

\* the threshold without the fault bound: a single vote suffices
Threshold_One(n_nodes) == 1

\* max(1, 2f + 1) with f = (n_nodes_ - 1) / 3
Threshold(n_nodes) ==
    LET f == CDiv(n_nodes - 1, 3)
    IN  Max(1, 2 * f + 1)

\* castVote notarizing without comparing the tally with the threshold
castVote_NoThreshold(nd, block_hash, epoch) ==
    LET voted == [nd EXCEPT !.votes_by_epoch =
                                InsertVote(@, epoch, block_hash, nd.node_id)]
    IN  checkFinalization(notarizeBlock(voted, block_hash))

\* castVote notarizing only when the tally exceeds the threshold
castVote_AboveThreshold(nd, block_hash, epoch) ==
    LET voted == [nd EXCEPT !.votes_by_epoch =
                                InsertVote(@, epoch, block_hash, nd.node_id)]
        tallied == IF Cardinality(VoteSet(voted, epoch, block_hash))
                          > Threshold(nd.n_nodes)
                   THEN notarizeBlock(voted, block_hash)
                   ELSE voted
    IN  checkFinalization(tallied)

castVote(nd, block_hash, epoch) ==
    LET voted == [nd EXCEPT !.votes_by_epoch =
                                InsertVote(@, epoch, block_hash, nd.node_id)]
        tallied == IF Cardinality(VoteSet(voted, epoch, block_hash))
                          >= Threshold(nd.n_nodes)
                   THEN notarizeBlock(voted, block_hash)
                   ELSE voted
    IN  checkFinalization(tallied)

\* the replica after the call, and the value returned
receiveProposal(nd, block, proposer_id) ==
    IF ~validateBlock(block, proposer_id) THEN [node |-> nd, ret |-> FALSE]
    ELSE LET b == Deref(block)
             adopted == [nd EXCEPT !.block_by_hash = MapPut(@, b.hash, b),
                                   !.blockchain    = Append(@, b)]
         IN  [node |-> castVote(adopted, b.hash, b.epoch), ret |-> TRUE]

\* the replica after the call, and the block returned
proposeBlock(nd, epoch, transactions, now) ==
    LET head   == findLongestNotarizedChain(nd)
        parent == IF head # NullPtr THEN Deref(head).hash ELSE GenesisText
        block  == Ptr(Block(epoch, parent, transactions, nd.node_id, now))
    IN  [node |-> receiveProposal(nd, block, nd.node_id).node, ret |-> block]

\* the leader taken to be the replica after epoch % n_nodes_
getEpochLeader_NextReplica(nd, epoch) == CMod(epoch + 1, nd.n_nodes)

\* epoch % n_nodes_ with n_nodes_ # 0
getEpochLeader(nd, epoch) == CMod(epoch, nd.n_nodes)

\* StreamletNode::getStats
getStats(nd) ==
    [ node_id          |-> nd.node_id,
      total_blocks     |-> Len(nd.blockchain),
      finalized_blocks |-> Len(nd.finalized_blocks),
      notarized_blocks |-> Cardinality(nd.notarized_blocks),
      latest_epoch     |-> IF nd.blockchain = <<>> THEN 0
                           ELSE nd.blockchain[Len(nd.blockchain)].epoch ]

----------------------------------------------------------------------------
(* Bookkeeping shared by the two specifications *)

\* lastCall before any call; every action records the operation, the replica
\* it was called on and what it returned by overriding fields (accepted: the
\* replicas whose receiveProposal returned true during runEpoch)
NoCall ==
    [ op        |-> "none",
      node      |-> 0,
      epoch     |-> 0,
      ret_bool  |-> FALSE,
      ret_block |-> NullPtr,
      ret_int   |-> 0,
      accepted  |-> {} ]

\* proto when no driver exists (Spec: a replica used on its own)
NoDriver ==
    [ pc |-> "replica", n_nodes |-> 0, num_epochs |-> 0,
      transactions_per_epoch |-> 0, e |-> 0 ]

Range(s) == {s[x] : x \in DOMAIN s}

\* a text that is the hash of no block
UnknownHash == <<"deadbeef">>

\* the system clock advances by one second while the driver runs (under Spec
\* every block is built within the second of the replica's construction)
Tick ==
    /\ proto.pc = "loop"
    /\ clock < MaxTime
    /\ clock' = clock + 1
    /\ lastCall' = [NoCall EXCEPT !.op = "tick"]
    /\ UNCHANGED <<nodes, proto>>

----------------------------------------------------------------------------
(* Spec: one replica, any public operation with any argument *)

\* replica counts a replica is constructed with: quorum threshold 1, and above 1
NodeCounts == {1, MaxN}
\* ids a replica is constructed with
NodeIds == {0}
\* epoch arguments: a negative one, zero, a positive one
EpochArgs == {0 - 1, 0, 1}
\* proposer ids of blocks built outside the replica, and proposerId arguments
ProposerIds == (0 - 1)..0
\* transaction lists
TxChoices == {<<<<"tx">>>>}

Init ==
    \E id \in NodeIds, n \in NodeCounts :
        /\ nodes = [i \in {0} |-> StreamletNode(id, n, 0)]
        /\ proto = NoDriver
        /\ clock = 0
        /\ lastCall = NoCall

\* parent hashes of blocks built outside the replica: the chain head's, or no block's
ParentChoices(nd) == {nd.blockchain[Len(nd.blockchain)].hash, UnknownHash}

\* blocks a caller can hand to receiveProposal: built now by Block's constructor
\* from any arguments, or a block the replica already holds
ExternalBlocks(nd) ==
    { Block(e, p, txs, pr, clock) :
        e \in EpochArgs, p \in ParentChoices(nd), txs \in TxChoices, pr \in ProposerIds }
    \cup Range(nd.block_by_hash)

Proposals(nd) == {NullPtr} \cup {Ptr(b) : b \in ExternalBlocks(nd)}

\* number of (epoch, hash) vote sets the replica holds
VoteEntries(nd) ==
    Cardinality({ <<e, h>> \in UNION {{e2} \X DOMAIN nd.votes_by_epoch[e2] :
                                        e2 \in DOMAIN nd.votes_by_epoch} : TRUE })

ProposeBlock(i, epoch, transactions) ==
    /\ proto.pc = "replica"
    /\ Len(nodes[i].blockchain) < MaxChain
    /\ LET r == proposeBlock(nodes[i], epoch, transactions, clock)
       IN  /\ nodes' = [nodes EXCEPT ![i] = r.node]
           /\ lastCall' = [NoCall EXCEPT !.op = "proposeBlock", !.node = i,
                                         !.ret_block = r.ret]
    /\ UNCHANGED <<proto, clock>>

ReceiveProposal(i, block, proposer_id) ==
    /\ proto.pc = "replica"
    /\ Len(nodes[i].blockchain) < MaxChain
    /\ LET r == receiveProposal(nodes[i], block, proposer_id)
       IN  /\ nodes' = [nodes EXCEPT ![i] = r.node]
           /\ lastCall' = [NoCall EXCEPT !.op = "receiveProposal", !.node = i,
                                         !.ret_bool = r.ret]
    /\ UNCHANGED <<proto, clock>>

CastVote(i, block_hash, epoch) ==
    /\ proto.pc = "replica"
    /\ Len(nodes[i].finalized_blocks) < MaxFinal
    /\ \/ nodes[i].node_id \in VoteSet(nodes[i], epoch, block_hash)
       \/ VoteEntries(nodes[i]) < MaxVotes
    /\ nodes' = [nodes EXCEPT ![i] = castVote(nodes[i], block_hash, epoch)]
    /\ lastCall' = [NoCall EXCEPT !.op = "castVote", !.node = i]
    /\ UNCHANGED <<proto, clock>>

Next ==
    \/ \E i \in DOMAIN nodes, epoch \in EpochArgs, txs \in TxChoices :
          ProposeBlock(i, epoch, txs)
    \/ \E i \in DOMAIN nodes :
          \E block \in Proposals(nodes[i]), proposer_id \in ProposerIds :
              ReceiveProposal(i, block, proposer_id)
    \/ \E i \in DOMAIN nodes :
          \E block_hash \in DOMAIN nodes[i].block_by_hash \cup {UnknownHash},
             epoch \in EpochArgs :
              CastVote(i, block_hash, epoch)

Spec == Init /\ [][Next]_vars

----------------------------------------------------------------------------
(* DriverSpec: StreamletProtocol (streamlet_protocol.cpp) *)

\* the clock values read by the n constructors of the replicas, in order
CtorTimes(n) ==
    { ts \in [0..(n - 1) -> 0..MaxTime] :
        \A i \in 0..(n - 1), j \in 0..(n - 1) : i <= j => ts[i] <= ts[j] }

\* StreamletProtocol::StreamletProtocol, followed by the call of runSimulation.
\* reserve(n) with n < 0 converts n to a size above max_size() and throws
\* std::length_error; n = 0 constructs a driver without replicas.
DriverInit ==
    \E n \in (0 - 1)..MaxN, num_epochs \in 0..MaxEpochs,
       transactions_per_epoch \in 0..MaxTx :
        /\ lastCall = NoCall
        /\ IF n < 0
           THEN /\ nodes = << >>
                /\ clock = 0
                /\ proto = [ pc |-> "ctor_threw", n_nodes |-> n, num_epochs |-> 0,
                             transactions_per_epoch |-> 0, e |-> 0 ]
           ELSE \E ts \in CtorTimes(n) :
                /\ nodes = [i \in 0..(n - 1) |-> StreamletNode(i, n, ts[i])]
                /\ clock = IF n = 0 THEN 0 ELSE ts[n - 1]
                /\ proto = [ pc |-> "loop", n_nodes |-> n, num_epochs |-> num_epochs,
                             transactions_per_epoch |-> transactions_per_epoch,
                             e |-> 1 ]

\* the loop of runEpoch leaving at the leader instead of skipping it
RECURSIVE deliver_Break(_, _, _, _, _)
deliver_Break(ns, accepted, from, proposal, leader) ==
    IF from >= Cardinality(DOMAIN ns) \/ from = leader
    THEN [nodes |-> ns, accepted |-> accepted]
    ELSE LET r == receiveProposal(ns[from], proposal, leader)
         IN  deliver_Break([ns EXCEPT ![from] = r.node],
                           IF r.ret THEN accepted \cup {from} ELSE accepted,
                           from + 1, proposal, leader)

\* the loop of runEpoch ending one replica early
RECURSIVE deliver_SkipLast(_, _, _, _, _)
deliver_SkipLast(ns, accepted, from, proposal, leader) ==
    IF from >= Cardinality(DOMAIN ns) - 1 THEN [nodes |-> ns, accepted |-> accepted]
    ELSE IF from = leader THEN deliver_SkipLast(ns, accepted, from + 1, proposal, leader)
    ELSE LET r == receiveProposal(ns[from], proposal, leader)
         IN  deliver_SkipLast([ns EXCEPT ![from] = r.node],
                              IF r.ret THEN accepted \cup {from} ELSE accepted,
                              from + 1, proposal, leader)

\* the loop of runEpoch over i = from..n_nodes_-1: the replicas after it, and
\* the replicas whose receiveProposal returned true
RECURSIVE deliver(_, _, _, _, _)
deliver(ns, accepted, from, proposal, leader) ==
    IF from >= Cardinality(DOMAIN ns) THEN [nodes |-> ns, accepted |-> accepted]
    ELSE IF from = leader THEN deliver(ns, accepted, from + 1, proposal, leader)
    ELSE LET r == receiveProposal(ns[from], proposal, leader)
         IN  deliver([ns EXCEPT ![from] = r.node],
                     IF r.ret THEN accepted \cup {from} ELSE accepted,
                     from + 1, proposal, leader)

\* runEpoch with at least one replica: the replicas after it, the proposal, and
\* the replicas that accepted it (the leader accepts inside proposeBlock)
runEpoch(ns, epoch, transactions, now) ==
    LET leader   == getEpochLeader(ns[0], epoch)
        p        == proposeBlock(ns[leader], epoch, transactions, now)
        selfOk   == validateBlock(p.ret, ns[leader].node_id)
        d        == deliver([ns EXCEPT ![leader] = p.node],
                            IF selfOk THEN {leader} ELSE {}, 0, p.ret, leader)
    IN  [nodes |-> d.nodes, accepted |-> d.accepted, proposal |-> p.ret,
         leader |-> leader]

\* the orders in which a loop over the n replicas can visit them
DeliveryOrders(n) ==
    {order \in [1..n -> 0..(n - 1)] :
        \A a, b \in 1..n : order[a] = order[b] => a = b}

\* the body of runEpoch's loop applied to the replicas in the given order
RECURSIVE deliverIn(_, _, _, _)
deliverIn(ns, order, proposal, leader) ==
    IF order = <<>> THEN ns
    ELSE IF Head(order) = leader THEN deliverIn(ns, Tail(order), proposal, leader)
    ELSE deliverIn([ns EXCEPT ![Head(order)] =
                        receiveProposal(ns[Head(order)], proposal, leader).node],
                   Tail(order), proposal, leader)

\* runEpoch with its loop visiting the replicas in the given order
runEpochIn(ns, epoch, transactions, now, order) ==
    LET leader == getEpochLeader(ns[0], epoch)
        p      == proposeBlock(ns[leader], epoch, transactions, now)
    IN  deliverIn([ns EXCEPT ![leader] = p.node], order, p.ret, leader)

\* "tx_<e>_<t>" for t = 0..count-1
SyntheticTxs(e, count) ==
    [t \in 1..count |-> <<"tx_", ToString(e), "_", ToString(t - 1)>>]

\* one iteration of runSimulation's loop: runEpoch(e, txs), showEpochSummary(e).
\* With no replica, nodes_.front() is undefined behaviour: the process is taken
\* to stop there.
RunSimulationStep ==
    /\ proto.pc = "loop"
    /\ proto.e <= proto.num_epochs
    /\ \/ /\ proto.n_nodes >= 1
          /\ LET r == runEpoch(nodes, proto.e,
                               SyntheticTxs(proto.e, proto.transactions_per_epoch),
                               clock)
             IN  /\ nodes' = r.nodes
                 /\ lastCall' = [NoCall EXCEPT !.op = "runEpoch", !.epoch = proto.e,
                                               !.ret_block = r.proposal,
                                               !.ret_int = r.leader,
                                               !.accepted = r.accepted]
          /\ proto' = [proto EXCEPT !.e = @ + 1]
       \/ /\ proto.n_nodes = 0
          /\ proto' = [proto EXCEPT !.pc = "crashed"]
          /\ lastCall' = [NoCall EXCEPT !.op = "runEpoch", !.epoch = proto.e]
          /\ UNCHANGED nodes
    /\ UNCHANGED clock

\* the loop ends: showFinalSummary, which reads the replicas' stats
ShowFinalSummary ==
    /\ proto.pc = "loop"
    /\ proto.e > proto.num_epochs
    /\ proto' = [proto EXCEPT !.pc = "done"]
    /\ lastCall' = [NoCall EXCEPT !.op = "showFinalSummary"]
    /\ UNCHANGED <<nodes, clock>>

DriverNext ==
    \/ Tick
    \/ RunSimulationStep
    \/ ShowFinalSummary

DriverSpec == DriverInit /\ [][DriverNext]_vars

----------------------------------------------------------------------------
(* Vocabulary of the properties *)

\* f = floor((n-1)/3) and the quorum max(1, 2f+1), as the specification states them
QuorumOf(n) == Max(1, 2 * ((n - 1) \div 3) + 1)

\* the replicas whose own vote for (epoch, block_hash) is recorded
Voters(epoch, block_hash) ==
    {i \in DOMAIN nodes : nodes[i].node_id \in VoteSet(nodes[i], epoch, block_hash)}

IsPrefix(s, t) == Len(s) <= Len(t) /\ \A k \in 1..Len(s) : s[k] = t[k]

\* s is a subsequence of t: the entries of s matched, in order, to distinct positions of t
RECURSIVE IsSubsequence(_, _)
IsSubsequence(s, t) ==
    IF s = <<>> THEN TRUE
    ELSE IF t = <<>> THEN FALSE
    ELSE IF Head(s) = Head(t) THEN IsSubsequence(Tail(s), Tail(t))
    ELSE IsSubsequence(s, Tail(t))

GenesisHashOf(nd) == nd.blockchain[1].hash

----------------------------------------------------------------------------
(* C1 *)

\* C1: after runEpoch(e, txs) has completed with at least max(1, 2f+1) distinct
\* replicas having accepted the proposal and cast their vote for it, the
\* proposed block is in the notarized set of every replica that voted for it.
C1_QuorumOfVotersNotarizes ==
    (lastCall.op = "runEpoch" /\ lastCall.ret_block # NullPtr) =>
        LET h      == Deref(lastCall.ret_block).hash
            voters == lastCall.accepted \cap Voters(lastCall.epoch, h)
        IN  Cardinality(voters) >= QuorumOf(proto.n_nodes) =>
                \A i \in voters : h \in nodes[i].notarized_blocks

----------------------------------------------------------------------------
(* C2 *)

\* C2 as stated: every hash in the notarized set, the genesis hash included, has
\* an epoch whose vote set for it holds at least max(1, 2f+1) replicas.
C2_EveryNotarizedHasQuorum ==
    \A i \in DOMAIN nodes :
        \A h \in nodes[i].notarized_blocks :
            \E e \in DOMAIN nodes[i].votes_by_epoch :
                Cardinality(VoteSet(nodes[i], e, h)) >= QuorumOf(nodes[i].n_nodes)

\* C2 amended: every hash in the notarized set other than the hash of the
\* replica's own genesis block has an epoch whose vote set for it holds at
\* least max(1, 2f+1) replicas.
C2_NotarizedNonGenesisHasQuorum ==
    \A i \in DOMAIN nodes :
        \A h \in nodes[i].notarized_blocks \ {GenesisHashOf(nodes[i])} :
            \E e \in DOMAIN nodes[i].votes_by_epoch :
                Cardinality(VoteSet(nodes[i], e, h)) >= QuorumOf(nodes[i].n_nodes)

\* a vote was cast and a hash other than the genesis hash is notarized
C2_Witness ==
    /\ lastCall.op \in {"receiveProposal", "proposeBlock", "castVote"}
    /\ \E i \in DOMAIN nodes :
          nodes[i].notarized_blocks \ {GenesisHashOf(nodes[i])} # {}

----------------------------------------------------------------------------
(* C3 *)

\* C3: receiveProposal(block, proposerId) returns false when the block is null,
\* fails isValid (empty hash, epoch < 0 or proposer < 0) or proposerId differs
\* from the block's proposer, and then the replica is unchanged; otherwise it
\* returns true. Stated of every reachable replica state and every call that
\* ReceiveProposal can make in it.
C3_RejectedProposalChangesNothing ==
    \A i \in DOMAIN nodes :
        \A block \in Proposals(nodes[i]), proposer_id \in ProposerIds :
            LET r   == receiveProposal(nodes[i], block, proposer_id)
                bad == \/ block = NullPtr
                       \/ Deref(block).hash = <<>>
                       \/ Deref(block).epoch < 0
                       \/ Deref(block).proposer_id < 0
                       \/ proposer_id # Deref(block).proposer_id
            IN  IF bad THEN r.ret = FALSE /\ r.node = nodes[i]
                ELSE r.ret = TRUE

\* receiveProposal has returned false on a replica that had adopted a block
\* before, and its state holds votes that the call left alone
C3_Witness ==
    /\ lastCall.op = "receiveProposal"
    /\ lastCall.ret_bool = FALSE
    /\ Len(nodes[lastCall.node].blockchain) >= 2
    /\ DOMAIN nodes[lastCall.node].votes_by_epoch # {}

----------------------------------------------------------------------------
(* C4 *)

\* C4: castVote(blockHash, epoch) on a replica that has already cast its vote
\* for (epoch, blockHash) leaves the whole replica state unchanged.
C4_DuplicateVoteIsNoOp ==
    [][ lastCall'.op = "castVote" =>
        \A i \in DOMAIN nodes :
          \A block_hash \in DOMAIN nodes[i].block_by_hash \cup {UnknownHash},
             epoch \in EpochArgs :
            ( /\ CastVote(i, block_hash, epoch)
              /\ nodes[i].node_id \in VoteSet(nodes[i], epoch, block_hash) )
            => nodes' = nodes
      ]_vars

----------------------------------------------------------------------------
(* C5 *)

\* C5: every block B of the finalized sequence has a notarized direct
\* successor: an adopted block in the notarized set whose parent hash is B's hash.
C5_FinalizedHasNotarizedChild ==
    \A i \in DOMAIN nodes :
        \A k \in 1..Len(nodes[i].finalized_blocks) :
            \E c \in Range(nodes[i].blockchain) :
                /\ c.hash \in nodes[i].notarized_blocks
                /\ c.parent_hash = nodes[i].finalized_blocks[k].hash

----------------------------------------------------------------------------
(* C6 *)

\* C6: every hash in the notarized set and the hash of every block in the
\* finalized sequence is a key of the block registry.
C6_NotarizedAndFinalizedRegistered ==
    \A i \in DOMAIN nodes :
        /\ nodes[i].notarized_blocks \subseteq DOMAIN nodes[i].block_by_hash
        /\ \A k \in 1..Len(nodes[i].finalized_blocks) :
              nodes[i].finalized_blocks[k].hash \in DOMAIN nodes[i].block_by_hash

----------------------------------------------------------------------------
(* C7 *)

\* C7: the finalized sequence is a subsequence of the local chain, each
\* finalized entry matched to a distinct chain position.
C7_FinalizedSubsequenceOfChain ==
    \A i \in DOMAIN nodes :
        IsSubsequence(nodes[i].finalized_blocks, nodes[i].blockchain)

----------------------------------------------------------------------------
(* C8 *)

\* C8: across every step, the finalized sequence before the step is a prefix of
\* the finalized sequence after it.
C8_FinalizedAppendOnly ==
    [][ \A i \in DOMAIN nodes :
            IsPrefix(nodes[i].finalized_blocks, nodes'[i].finalized_blocks) ]_vars

\* a replica has finalized two different blocks, one after the other
C8_Witness ==
    \E i \in DOMAIN nodes :
        /\ Len(nodes[i].finalized_blocks) >= 2
        /\ nodes[i].finalized_blocks[1] # nodes[i].finalized_blocks[2]

----------------------------------------------------------------------------
(* C9 *)

\* C9: a block in the chain, in the notarized set or in the finalized sequence
\* stays there in every later state, and every block of the finalized sequence
\* is in the notarized set and in the local chain.
C9_LifecycleMonotone ==
    /\ [][ \A i \in DOMAIN nodes :
              /\ Range(nodes[i].blockchain) \subseteq Range(nodes'[i].blockchain)
              /\ nodes[i].notarized_blocks \subseteq nodes'[i].notarized_blocks
              /\ Range(nodes[i].finalized_blocks)
                     \subseteq Range(nodes'[i].finalized_blocks) ]_vars
    /\ [](\A i \in DOMAIN nodes :
              \A k \in 1..Len(nodes[i].finalized_blocks) :
                  /\ nodes[i].finalized_blocks[k].hash \in nodes[i].notarized_blocks
                  /\ nodes[i].finalized_blocks[k] \in Range(nodes[i].blockchain))

\* a block adopted after genesis is notarized and finalized
C9_Witness ==
    \E i \in DOMAIN nodes :
        \E k \in 1..Len(nodes[i].finalized_blocks) :
            /\ nodes[i].finalized_blocks[k].hash # GenesisHashOf(nodes[i])
            /\ nodes[i].finalized_blocks[k].hash \in nodes[i].notarized_blocks

----------------------------------------------------------------------------
(* C10 *)

\* C10: construction with a replica count below 1 fails; no driver with zero or
\* negative replicas exists on which runEpoch can be invoked.
C10_ConstructionBelowOneFails ==
    proto.n_nodes < 1 => proto.pc = "ctor_threw"

----------------------------------------------------------------------------
(* C11 *)

\* C11: for n >= 1 and numEpochs >= 1, after runSimulation(numEpochs, txPerEpoch)
\* every replica has adopted genesis plus exactly one block per epoch:
\* stats().total_blocks = numEpochs + 1 >= 2 and stats().latest_epoch = numEpochs.
C11_OneBlockPerEpochAtEveryReplica ==
    (proto.pc = "done" /\ proto.n_nodes >= 1 /\ proto.num_epochs >= 1) =>
        \A i \in DOMAIN nodes :
            /\ getStats(nodes[i]).total_blocks = proto.num_epochs + 1
            /\ getStats(nodes[i]).total_blocks >= 2
            /\ getStats(nodes[i]).latest_epoch = proto.num_epochs
            /\ \A k \in 1..Len(nodes[i].blockchain) :
                   nodes[i].blockchain[k].epoch = k - 1

\* runSimulation(3, txPerEpoch) has ended on four replicas
C11_Witness ==
    /\ proto.pc = "done"
    /\ proto.n_nodes = 4
    /\ proto.num_epochs = 3
    /\ lastCall.op = "showFinalSummary"

----------------------------------------------------------------------------
(* C12 *)

\* C12: with n = 1 replica, every block the replica proposes is in its
\* notarized set as soon as proposeBlock returns, in every epoch of a run.
C12_SingleReplicaNotarizesOwnProposal ==
    (lastCall.op = "runEpoch" /\ proto.n_nodes = 1) =>
        /\ lastCall.ret_block # NullPtr
        /\ Deref(lastCall.ret_block).proposer_id = nodes[0].node_id
        /\ Deref(lastCall.ret_block).hash \in nodes[0].notarized_blocks

\* the single replica has proposed in a second epoch
C12_Witness ==
    /\ lastCall.op = "runEpoch"
    /\ proto.n_nodes = 1
    /\ lastCall.epoch >= 2
    /\ lastCall.ret_block # NullPtr

----------------------------------------------------------------------------
(* C13 *)

\* C13: within runEpoch the order in which the proposal is delivered to the
\* non-leader replicas does not affect the outcome: the state every replica has
\* at the end of the epoch is the one every delivery order produces.
C13_DeliveryOrderIrrelevant ==
    [][(lastCall'.op = "runEpoch" /\ proto.n_nodes >= 1) =>
          \A order \in DeliveryOrders(proto.n_nodes) :
              nodes' = runEpochIn(nodes, proto.e,
                                  SyntheticTxs(proto.e, proto.transactions_per_epoch),
                                  clock, order)]_vars

\* an epoch has ended with at least two non-leader replicas, all of which
\* adopted the proposal
C13_Witness ==
    /\ lastCall.op = "runEpoch"
    /\ proto.n_nodes >= 3
    /\ lastCall.accepted = DOMAIN nodes
    /\ \A i \in DOMAIN nodes :
           nodes[i].blockchain[Len(nodes[i].blockchain)] = Deref(lastCall.ret_block)

----------------------------------------------------------------------------
(* C14 *)

\* C14: after replica initialization and before any epoch runs, the replica's
\* chain is exactly [genesis] (epoch 0, parent "GENESIS", proposer -1), the
\* registry maps the genesis hash to it, the notarized set is exactly
\* {genesis hash}, the finalized sequence is empty and no votes are recorded.
C14_InitialReplicaState ==
    proto.e = 1 =>
        \A i \in DOMAIN nodes :
            LET nd == nodes[i]
            IN  /\ Len(nd.blockchain) = 1
                /\ nd.blockchain[1].epoch = 0
                /\ nd.blockchain[1].parent_hash = GenesisText
                /\ nd.blockchain[1].proposer_id = 0 - 1
                /\ nd.blockchain[1].transactions = <<<<"genesis">>>>
                /\ DOMAIN nd.block_by_hash = {nd.blockchain[1].hash}
                /\ nd.block_by_hash[nd.blockchain[1].hash] = nd.blockchain[1]
                /\ nd.notarized_blocks = {nd.blockchain[1].hash}
                /\ nd.finalized_blocks = <<>>
                /\ DOMAIN nd.votes_by_epoch = {}

\* four replicas constructed, time has passed, no epoch has run yet
C14_Witness ==
    /\ proto.pc = "loop"
    /\ proto.e = 1
    /\ proto.num_epochs >= 1
    /\ proto.n_nodes = 4
    /\ lastCall.op = "tick"

----------------------------------------------------------------------------
(* C15 *)

\* C15: for all n >= 1 and e >= 0, epochLeader(e) = e mod n, hence
\* epochLeader(e) = epochLeader(e + n) and the result is a replica id in
\* 0..n-1; every replica of a run computes the same leader for the same epoch,
\* and that leader is the one runEpoch lets propose.
C15_LeaderIsEpochModN ==
    proto.n_nodes >= 1 =>
        /\ \A i \in DOMAIN nodes : \A e \in 0..(2 * MaxN) :
               /\ getEpochLeader(nodes[i], e) = e % proto.n_nodes
               /\ getEpochLeader(nodes[i], e) = getEpochLeader(nodes[i], e + proto.n_nodes)
               /\ getEpochLeader(nodes[i], e) \in 0..(proto.n_nodes - 1)
               /\ \A j \in DOMAIN nodes :
                      getEpochLeader(nodes[j], e) = getEpochLeader(nodes[i], e)
        /\ lastCall.op = "runEpoch" =>
               /\ lastCall.ret_int = lastCall.epoch % proto.n_nodes
               /\ Deref(lastCall.ret_block).proposer_id = lastCall.ret_int

\* the rotation has wrapped around: epoch 3 of a run with three replicas is
\* led by replica 0
C15_Witness ==
    /\ lastCall.op = "runEpoch"
    /\ proto.n_nodes = 3
    /\ lastCall.epoch = 3
    /\ lastCall.ret_int = 0
    /\ Deref(lastCall.ret_block).proposer_id = 0

----------------------------------------------------------------------------
(* C16 *)

\* C16: proposeBlock(epoch, transactions) on a replica with id >= 0 and
\* epoch >= 0 returns a block whose parent hash is the hash of the chain head
\* before the call and whose proposer is the replica's own id; on return that
\* block is the new chain head, is in the registry, the replica's own id is in
\* the vote set for (epoch, block hash), and the chain has grown by exactly one.
C16_ProposeBlockAdoptsAndVotes ==
    [][(/\ lastCall'.op = "proposeBlock"
        /\ nodes[lastCall'.node].node_id >= 0
        /\ Deref(lastCall'.ret_block).epoch >= 0) =>
          LET before == nodes[lastCall'.node]
              after  == nodes'[lastCall'.node]
              b      == Deref(lastCall'.ret_block)
          IN  /\ b.parent_hash = before.blockchain[Len(before.blockchain)].hash
              /\ b.proposer_id = before.node_id
              /\ Len(after.blockchain) = Len(before.blockchain) + 1
              /\ after.blockchain = Append(before.blockchain, b)
              /\ b.hash \in DOMAIN after.block_by_hash
              /\ after.block_by_hash[b.hash] = b
              /\ before.node_id \in VoteSet(after, b.epoch, b.hash)]_vars

\* proposeBlock has returned a block of epoch >= 0 that extends a chain of two
\* blocks
C16_Witness ==
    /\ lastCall.op = "proposeBlock"
    /\ Deref(lastCall.ret_block).epoch >= 0
    /\ Len(nodes[lastCall.node].blockchain) = 3
    /\ nodes[lastCall.node].blockchain[3] = Deref(lastCall.ret_block)
    /\ Deref(lastCall.ret_block).parent_hash = nodes[lastCall.node].blockchain[2].hash

----------------------------------------------------------------------------
(* C17 *)

\* C17: (agreement) in a driver run with any n >= 1, at the end of every
\* runEpoch all replicas hold the same chain (same blocks in the same order),
\* the same notarized set and the same finalized sequence; no two replicas
\* ever finalize different blocks at the same position.
C17_ReplicasAgree ==
    /\ (lastCall.op = "runEpoch" /\ proto.n_nodes >= 1) =>
           \A i, j \in DOMAIN nodes :
               /\ [k \in 1..Len(nodes[i].blockchain) |-> nodes[i].blockchain[k].hash]
                    = [k \in 1..Len(nodes[j].blockchain) |-> nodes[j].blockchain[k].hash]
               /\ nodes[i].notarized_blocks = nodes[j].notarized_blocks
               /\ [k \in 1..Len(nodes[i].finalized_blocks) |->
                       nodes[i].finalized_blocks[k].hash]
                    = [k \in 1..Len(nodes[j].finalized_blocks) |->
                           nodes[j].finalized_blocks[k].hash]
    /\ \A i, j \in DOMAIN nodes :
           \A k \in 1..Len(nodes[i].finalized_blocks) :
               k <= Len(nodes[j].finalized_blocks) =>
                   nodes[i].finalized_blocks[k].hash = nodes[j].finalized_blocks[k].hash

----------------------------------------------------------------------------
(* C18 *)

\* C18: (chain shape) in every reachable state of a driver run each replica's
\* chain is a single linked branch: for every adjacent pair the later block's
\* parent hash equals the earlier block's hash, epochs are strictly increasing
\* with exactly one block per epoch, each proposed block's proposer is
\* epoch mod n, and no receiveProposal call of the driver ever returns false.
C18_ChainIsLinkedBranch ==
    proto.n_nodes >= 1 =>
        /\ \A i \in DOMAIN nodes :
               LET chain == nodes[i].blockchain
               IN  /\ \A k \in 1..(Len(chain) - 1) :
                          /\ chain[k + 1].parent_hash = chain[k].hash
                          /\ chain[k + 1].epoch = chain[k].epoch + 1
                   /\ \A k \in 2..Len(chain) :
                          chain[k].proposer_id = chain[k].epoch % proto.n_nodes
        /\ lastCall.op = "runEpoch" => lastCall.accepted = DOMAIN nodes

----------------------------------------------------------------------------
(* C19 *)

\* C19: (votes are never shared) in every reachable state every vote set held
\* by replica r contains at most r's own id (size <= 1); hence whenever the
\* quorum threshold exceeds 1 (n >= 4), in a driver run no block other than
\* genesis is ever notarized at any replica and every replica's finalized
\* sequence stays empty.
C19_VotesNeverShared ==
    \A i \in DOMAIN nodes :
        /\ \A e \in DOMAIN nodes[i].votes_by_epoch :
               \A h \in DOMAIN nodes[i].votes_by_epoch[e] :
                   /\ nodes[i].votes_by_epoch[e][h] \subseteq {nodes[i].node_id}
                   /\ Cardinality(nodes[i].votes_by_epoch[e][h]) <= 1
        /\ (proto.n_nodes >= 4 /\ QuorumOf(proto.n_nodes) > 1) =>
               /\ nodes[i].notarized_blocks = {GenesisHashOf(nodes[i])}
               /\ nodes[i].finalized_blocks = <<>>

\* two epochs of a run with four replicas have ended: every replica has voted
\* for the second proposal, alone
C19_Witness ==
    /\ lastCall.op = "runEpoch"
    /\ proto.n_nodes = 4
    /\ lastCall.epoch = 2
    /\ \A i \in DOMAIN nodes :
           /\ Len(nodes[i].blockchain) = 3
           /\ VoteSet(nodes[i], 2, Deref(lastCall.ret_block).hash) = {nodes[i].node_id}

----------------------------------------------------------------------------
(* C20 *)

\* C20: (finalization lags by one epoch) in a driver run with n in {1, 2, 3},
\* after epoch k >= 1 completes every replica's notarized set contains all k+1
\* adopted blocks and its finalized sequence equals its chain without the last
\* block, each block exactly once, in chain order: finalized count = k.
C20_FinalizationLagsByOne ==
    (proto.n_nodes \in 1..3 /\ proto.pc \in {"loop", "done"} /\ proto.e >= 2) =>
        \A i \in DOMAIN nodes :
            LET k     == proto.e - 1
                chain == nodes[i].blockchain
            IN  /\ Len(chain) = k + 1
                /\ \A p \in 1..Len(chain) : chain[p].hash \in nodes[i].notarized_blocks
                /\ Cardinality(nodes[i].notarized_blocks) = k + 1
                /\ nodes[i].finalized_blocks = SubSeq(chain, 1, k)
                /\ getStats(nodes[i]).finalized_blocks = k

\* three epochs of a run with three replicas have ended
C20_Witness ==
    /\ lastCall.op = "runEpoch"
    /\ proto.n_nodes = 3
    /\ lastCall.epoch = 3
    /\ proto.e = 4
    /\ \A i \in DOMAIN nodes : Len(nodes[i].finalized_blocks) = 3

====
